---- MODULE Spec2Model ----
(***************************************************************************)
(* The derivation pipeline skeleton (crates/derive/src/pipeline/core.rs),  *)
(* its L2 chain provider test double                                       *)
(* (crates/derive/src/test_utils/sys_config_fetcher.rs) and the fixture    *)
(* runner (bin/kd8n/src/runner.rs), as state machines, and the span batch  *)
(* utilities (crates/derive/src/batch/span_batch/utils.rs) as operators.   *)
(*                                                                         *)
(* An Option<T> is a sequence of length 0 (None) or 1 (Some).  The top     *)
(* stage S is a trait object: its answers are inputs of the actions.       *)
(***************************************************************************)
EXTENDS Integers, Sequences, FiniteSets, TLC

VARIABLES
    prepared,             \* DerivationPipeline.prepared (VecDeque)
    system_configs,       \* TestSystemConfigL2Fetcher.system_configs
    call,                 \* the last call made on the pipeline and what it did
    pushed,               \* history: records step pushed, in order
    popped,               \* history: records next() returned as Some, in order
    resetTrack,           \* history: progress of "Reset, steps, next"
    fixture,              \* runner: the DerivationFixture
    pc,                   \* runner: position in run
    cursor,               \* runner: cursor (Option)
    end,                  \* runner: end (Option)
    advance_cursor_flag,  \* runner: advance_cursor_flag
    validated,            \* runner history: numbers validated at the cursor
    stepped,              \* runner history: pipeline.step was called
    run_result,           \* runner: what run returned (Option)
    iteration,            \* runner history: what the last loop iteration did
    tx_input,             \* read_tx_data: the bytes behind r before the call
    envelope,             \* read_tx_data: the envelope encoded (Option)
    reader,               \* read_tx_data: the bytes behind the cursor r
    read_result,          \* read_tx_data: what it returned (Option)
    sig_v,                \* the u64 v of a signature
    sig_tx_type,          \* the TxType of the transaction signed
    build,                \* whether the build checks arithmetic overflow
    y_parity,             \* what convert_v_to_y_parity returned (Option)
    protected             \* what is_protected_v returned (Option)

vars == <<prepared, system_configs, call, pushed, popped, resetTrack,
          fixture, pc, cursor, end, advance_cursor_flag, validated, stepped,
          run_result, iteration, tx_input, envelope, reader,
          read_result, sig_v, sig_tx_type, build, y_parity, protected>>

pipelineVars == <<prepared, system_configs>>
historyVars == <<pushed, popped, resetTrack>>
runnerVars == <<fixture, pc, cursor, end, advance_cursor_flag, validated,
                stepped, run_result, iteration>>
txVars == <<tx_input, envelope, reader, read_result>>
sigVars == <<sig_v, sig_tx_type, build, y_parity, protected>>
codecVars == <<txVars, sigVars>>

----------------------------------------------------------------------------
(* Bounds *)

\* L2 block numbers are 0..MaxBlock
MaxBlock == 1
\* L1 origin numbers are 0..MaxL1
MaxL1 == 1
\* the prepared queue holds at most MaxQueue records (Spec)
MaxQueue == 2
\* step pushes at most MaxPushed records in a behaviour (SpecFifo)
MaxPushed == 2
\* the inputs of read_tx_data are the byte strings of at most MaxLen bytes
\* and the encodings of envelopes with at most MaxLen bytes of payload
MaxLen == 3
\* the small values of v are 0..MaxV
MaxV == 37

----------------------------------------------------------------------------
(* Data *)

None == <<>>
Some(x) == <<x>>
IsSome(o) == Len(o) = 1

BlockInfo(n) == [number |-> n]
L2BlockInfo(n) == [block_info |-> BlockInfo(n)]

L2Numbers == 0..MaxBlock
L2BlockInfos == {L2BlockInfo(n) : n \in L2Numbers}
L1Origins == {BlockInfo(n) : n \in 0..MaxL1}

\* OptimismPayloadAttributes, opaque
Payloads == {"x", "y"}

OptimismAttributesWithParent(a, p) == [attributes |-> a, parent |-> p]

\* SystemConfig at an L2 height, opaque
SystemConfig(n) == [at |-> n]

(* PipelineError wrapped in a PipelineErrorKind *)
PipelineErrorKind(k, e, m) == [kind |-> k, err |-> e, msg |-> m]
temp(e, m) == PipelineErrorKind("Temporary", e, m)
crit(e, m) == PipelineErrorKind("Critical", e, m)
reset(e, m) == PipelineErrorKind("Reset", e, m)
TemporaryEof == temp("Eof", "")

\* the errors a stage may answer with
StageErrors ==
    { TemporaryEof, crit("Eof", ""), reset("Eof", ""),
      temp("NotEnoughData", ""), crit("MissingOrigin", "") }

\* the errors advance_origin may answer with
AdvanceErrors == { temp("Provider", "Block not found"), crit("Eof", "") }

Ok(v) == [ok |-> TRUE, val |-> Some(v), err |-> None]
Err(e) == [ok |-> FALSE, val |-> None, err |-> Some(e)]
Unit == "()"

StepResult(t, e) == [tag |-> t, err |-> e]
PreparedAttributes == StepResult("PreparedAttributes", None)
AdvancedOrigin == StepResult("AdvancedOrigin", None)
OriginAdvanceErr(e) == StepResult("OriginAdvanceErr", Some(e))
StepFailed(e) == StepResult("StepFailed", Some(e))

SignalReset(h, o) == [tag |-> "Reset", l2_safe_head |-> h, l1_origin |-> o]
SignalFlushChannel ==
    [tag |-> "FlushChannel", l2_safe_head |-> L2BlockInfo(0),
     l1_origin |-> BlockInfo(0)]
Signals ==
    {SignalReset(h, o) : h \in L2BlockInfos, o \in L1Origins}
        \cup {SignalFlushChannel}

----------------------------------------------------------------------------
(* The top stage: what its trait methods may answer *)

\* next_attributes(cursor): the attributes built on the cursor, or an error
NextAttributesOutcomes(c) ==
    {Ok(OptimismAttributesWithParent(a, c)) : a \in Payloads}
        \cup {Err(e) : e \in StageErrors}

AdvanceOriginOutcomes == {Ok(Unit)} \cup {Err(e) : e \in AdvanceErrors}
ResetOutcomes == {Ok(Unit)} \cup {Err(e) : e \in StageErrors}
FlushChannelOutcomes == {Ok(Unit)} \cup {Err(e) : e \in StageErrors}

(* The answers worth drawing for a call: every answer of a method the call
   can reach, one answer of a method it cannot reach *)
AdvanceOriginAsked(na) ==
    IF ~na.ok /\ na.err[1] = TemporaryEof
    THEN AdvanceOriginOutcomes ELSE {Ok(Unit)}
ResetAsked(sig) ==
    IF sig.tag = "Reset" THEN ResetOutcomes ELSE {Ok(Unit)}
FlushChannelAsked(sig) ==
    IF sig.tag = "FlushChannel" THEN FlushChannelOutcomes ELSE {Ok(Unit)}

----------------------------------------------------------------------------
(* The L2 chain provider *)

NotFound(n) == [variant |-> "NotFound", number |-> n]

\* Display of TestSystemConfigL2FetcherError
to_string(e) == "system config not found: " \o ToString(e.number)

system_config_by_number(configs, number) ==
    IF number \in DOMAIN configs
    THEN Ok(configs[number])
    ELSE Err(NotFound(number))

\* a provider holding a system config at every number below MaxBlock, none
\* at MaxBlock
SomeSystemConfigs == [n \in 0..(MaxBlock - 1) |-> SystemConfig(n)]

----------------------------------------------------------------------------
(* DerivationPipeline *)

\* VecDeque::back, in place of front
peek_mutant(q) == IF q = <<>> THEN None ELSE Some(q[Len(q)])

\* VecDeque::front
peek(q) == IF q = <<>> THEN None ELSE Some(Head(q))

\* VecDeque::pop_back, in place of pop_front
next_mutant(q) ==
    IF q = <<>>
    THEN [item |-> None, prepared |-> q]
    ELSE [item |-> Some(q[Len(q)]), prepared |-> SubSeq(q, 1, Len(q) - 1)]

\* Iterator::next: VecDeque::pop_front
next(q) ==
    IF q = <<>>
    THEN [item |-> None, prepared |-> q]
    ELSE [item |-> Some(Head(q)), prepared |-> Tail(q)]

\* VecDeque::push_front, in place of push_back
push_back_mutant(q, a) == <<a>> \o q

push_back(q, a) == Append(q, a)

\* any Eof, whatever its kind
is_temporary_eof_mutant(err) == err.err = "Eof"

\* the pattern PipelineErrorKind::Temporary(PipelineError::Eof)
is_temporary_eof(err) == err = TemporaryEof

\* na: what next_attributes answered; adv: what advance_origin answers if asked
step(q, na, adv) ==
    IF na.ok
    THEN [prepared |-> push_back(q, na.val[1]),
          result |-> PreparedAttributes, advance_calls |-> 0]
    ELSE IF is_temporary_eof(na.err[1])
    THEN IF ~adv.ok
         THEN [prepared |-> q, result |-> OriginAdvanceErr(adv.err[1]),
               advance_calls |-> 1]
         ELSE [prepared |-> q, result |-> AdvancedOrigin, advance_calls |-> 1]
    ELSE [prepared |-> q, result |-> StepFailed(na.err[1]),
          advance_calls |-> 0]

\* the provider error taken as critical
provider_error_mutant(e) == crit("Provider", to_string(e))

\* map_err(|e| PipelineError::Provider(e.to_string()).temp())
provider_error(e) == temp("Provider", to_string(e))

\* every reset error swallowed
reset_result_mutant(rst) == Ok(Unit)

\* what signal returns once reset answered rst
reset_result(rst) ==
    IF rst.ok
    THEN Ok(Unit)
    ELSE IF is_temporary_eof(rst.err[1])
    THEN Ok(Unit)
    ELSE Err(rst.err[1])

\* a Temporary(Eof) of flush_channel swallowed as reset's is
flush_result_mutant(fl) == reset_result(fl)

\* self.attributes.flush_channel().await?, then Ok(())
flush_result(fl) ==
    IF fl.ok THEN Ok(Unit) ELSE Err(fl.err[1])

\* rst, fl: what reset and flush_channel answer if asked
signal(q, configs, sig, rst, fl) ==
    IF sig.tag = "Reset"
    THEN LET number == sig.l2_safe_head.block_info.number
             system_config == system_config_by_number(configs, number)
         IN  IF ~system_config.ok
             THEN [prepared |-> q,
                   result |-> Err(provider_error(system_config.err[1])),
                   provider_calls |-> <<number>>, reset_calls |-> <<>>,
                   flush_calls |-> 0]
             ELSE [prepared |-> q,
                   result |-> reset_result(rst),
                   provider_calls |-> <<number>>,
                   reset_calls |-> << [l1_origin |-> sig.l1_origin,
                                       system_config |->
                                           system_config.val[1]] >>,
                   flush_calls |-> 0]
    ELSE [prepared |-> q,
          result |-> flush_result(fl),
          provider_calls |-> <<>>, reset_calls |-> <<>>, flush_calls |-> 1]

----------------------------------------------------------------------------
(* The record of the last call *)

NoCall ==
    [op |-> "new", before |-> <<>>, cursor |-> None, sig |-> None,
     na |-> None, adv |-> None, rst |-> None, fl |-> None,
     step_result |-> None, signal_result |-> None, item |-> None,
     peeked |-> None,
     advance_calls |-> 0, provider_calls |-> <<>>, reset_calls |-> <<>>,
     flush_calls |-> 0]

----------------------------------------------------------------------------
(* Calls on the pipeline by any driver *)

CallPeek ==
    /\ call' = [NoCall EXCEPT !.op = "peek", !.before = prepared,
                              !.item = Some(peek(prepared))]
    /\ UNCHANGED <<pipelineVars, historyVars, runnerVars, codecVars>>

CallNext ==
    LET r == next(prepared)
    IN  /\ prepared' = r.prepared
        /\ call' = [NoCall EXCEPT
                      !.op = "next", !.before = prepared,
                      !.item = Some(r.item),
                      !.peeked = IF call.op = "peek" THEN call.item ELSE None]
        /\ UNCHANGED <<system_configs, historyVars, runnerVars, codecVars>>

CallStep ==
    \E c \in L2BlockInfos :
      \E na \in NextAttributesOutcomes(c) :
        \E adv \in AdvanceOriginAsked(na) :
          LET r == step(prepared, na, adv)
          IN  /\ na.ok => Len(prepared) < MaxQueue
              /\ prepared' = r.prepared
              /\ call' = [NoCall EXCEPT
                            !.op = "step", !.before = prepared,
                            !.cursor = Some(c), !.na = Some(na),
                            !.adv = IF r.advance_calls > 0
                                    THEN Some(adv) ELSE None,
                            !.step_result = Some(r.result),
                            !.advance_calls = r.advance_calls]
              /\ UNCHANGED <<system_configs, historyVars, runnerVars,
                             codecVars>>

CallSignal ==
    \E sig \in Signals :
      \E rst \in ResetAsked(sig) :
        \E fl \in FlushChannelAsked(sig) :
          LET r == signal(prepared, system_configs, sig, rst, fl)
          IN  /\ prepared' = r.prepared
              /\ call' = [NoCall EXCEPT
                            !.op = "signal", !.before = prepared,
                            !.sig = Some(sig),
                            !.rst = IF r.reset_calls # <<>>
                                    THEN Some(rst) ELSE None,
                            !.fl = IF r.flush_calls > 0
                                   THEN Some(fl) ELSE None,
                            !.signal_result = Some(r.result),
                            !.provider_calls = r.provider_calls,
                            !.reset_calls = r.reset_calls,
                            !.flush_calls = r.flush_calls]
              /\ UNCHANGED <<system_configs, historyVars, runnerVars,
                             codecVars>>

----------------------------------------------------------------------------
(* Specification of the pipeline under any driver *)

NoFixture == [l2_block_infos |-> {}, l2_payloads |-> [n \in {} |-> "x"]]

\* no loop iteration yet.  turn: the parity of the iterations run; flag,
\* cursor_before, validated_before: advance_cursor_flag, cursor and validated
\* at the top of the iteration; lookup: what l2_block_info_by_number
\* answered, if asked; step_cursor, step_result: the cursor pipeline.step was
\* called with and its result, if called; next_called, item: whether
\* pipeline.next() was called, and what it returned
NoIteration ==
    [turn |-> 0, flag |-> FALSE, cursor_before |-> None,
     validated_before |-> {}, lookup |-> None, step_cursor |-> None,
     step_result |-> None, next_called |-> FALSE, item |-> None]

RunnerIdle ==
    /\ fixture = NoFixture
    /\ pc = "idle"
    /\ cursor = None
    /\ end = None
    /\ advance_cursor_flag = FALSE
    /\ validated = {}
    /\ stepped = FALSE
    /\ run_result = None
    /\ iteration = NoIteration

\* no call of read_tx_data
TxIdle ==
    /\ tx_input = <<>>
    /\ envelope = None
    /\ reader = <<>>
    /\ read_result = None

\* no call of convert_v_to_y_parity or is_protected_v
SigIdle ==
    /\ sig_v = <<0, 0, 0, 0>>
    /\ sig_tx_type = "Legacy"
    /\ build = "release"
    /\ y_parity = None
    /\ protected = None

NoHistory ==
    /\ pushed = <<>>
    /\ popped = <<>>
    /\ resetTrack = [phase |-> "none", l2_safe_head |-> None, item |-> None]

Init ==
    /\ prepared = <<>>
    /\ system_configs = SomeSystemConfigs
    /\ call = NoCall
    /\ NoHistory
    /\ RunnerIdle
    /\ TxIdle
    /\ SigIdle

Next == CallPeek \/ CallNext \/ CallStep \/ CallSignal

Spec == Init /\ [][Next]_vars

----------------------------------------------------------------------------
(* Specification of the pipeline under any driver, with the history of what
   was pushed and popped in place of the record of the last call *)

NoTrack == [phase |-> "none", l2_safe_head |-> None, item |-> None]

\* "reset": a Reset returned Ok and only steps at its l2_safe_head followed,
\* none of them PreparedAttributes; "prepared": the last of them was the
\* first PreparedAttributes; "popped": next was called right after it
TrackSignal(sig, result) ==
    IF sig.tag = "Reset" /\ result.ok
    THEN [phase |-> "reset", l2_safe_head |-> Some(sig.l2_safe_head),
          item |-> None]
    ELSE NoTrack

TrackStep(t, c, result) ==
    IF t.phase = "reset" /\ t.l2_safe_head = Some(c)
    THEN IF result = PreparedAttributes
         THEN [t EXCEPT !.phase = "prepared"]
         ELSE t
    ELSE NoTrack

TrackNext(t, item) ==
    IF t.phase = "prepared"
    THEN [t EXCEPT !.phase = "popped", !.item = item]
    ELSE NoTrack

\* peek returns a reference and writes nothing
FifoPeek ==
    LET item == peek(prepared)
    IN  UNCHANGED vars

FifoNext ==
    LET r == next(prepared)
    IN  /\ prepared' = r.prepared
        /\ popped' = IF IsSome(r.item)
                      THEN Append(popped, r.item[1]) ELSE popped
        /\ resetTrack' = TrackNext(resetTrack, r.item)
        /\ UNCHANGED <<system_configs, call, pushed, runnerVars, codecVars>>

FifoStep ==
    \E c \in L2BlockInfos :
      \E na \in NextAttributesOutcomes(c) :
        \E adv \in AdvanceOriginAsked(na) :
          LET r == step(prepared, na, adv)
          IN  /\ na.ok => Len(pushed) < MaxPushed
              /\ prepared' = r.prepared
              /\ pushed' = IF r.result = PreparedAttributes
                            THEN Append(pushed, na.val[1]) ELSE pushed
              /\ resetTrack' = TrackStep(resetTrack, c, r.result)
              /\ UNCHANGED <<system_configs, call, popped, runnerVars,
                             codecVars>>

FifoSignal ==
    \E sig \in Signals :
      \E rst \in ResetAsked(sig) :
        \E fl \in FlushChannelAsked(sig) :
          LET r == signal(prepared, system_configs, sig, rst, fl)
          IN  /\ prepared' = r.prepared
              /\ resetTrack' = TrackSignal(sig, r.result)
              /\ UNCHANGED <<system_configs, call, pushed, popped,
                             runnerVars, codecVars>>

NextFifo == FifoPeek \/ FifoNext \/ FifoStep \/ FifoSignal

SpecFifo == Init /\ [][NextFifo]_vars

----------------------------------------------------------------------------
(* The runner *)

Min(S) == CHOOSE n \in S : \A m \in S : n <= m
Max(S) == CHOOSE n \in S : \A m \in S : m <= n

\* a fixture keeps each L2BlockInfo under its own number
Fixtures ==
    { [l2_block_infos |-> [n \in K |-> L2BlockInfo(n)], l2_payloads |-> f] :
        K \in SUBSET L2Numbers,
        f \in UNION { [P -> Payloads] : P \in SUBSET L2Numbers } }

\* FixtureL2Provider::l2_block_info_by_number
l2_block_info_by_number(fx, number) ==
    IF number \in DOMAIN fx.l2_block_infos
    THEN Ok(fx.l2_block_infos[number])
    ELSE Err("Block not found")

\* the cursor taken from nowhere: the block after the least key
run_start_mutant(fx) ==
    IF DOMAIN fx.l2_block_infos = {}
    THEN [result |-> Some(Err("No blocks found")), cursor |-> None,
          end |-> None]
    ELSE [result |-> None,
          cursor |-> Some(L2BlockInfo(Min(DOMAIN fx.l2_block_infos) + 1)),
          end |-> Some(Max(DOMAIN fx.l2_block_infos))]

\* run, up to the loop
run_start(fx) ==
    IF DOMAIN fx.l2_block_infos = {}
    THEN [result |-> Some(Err("No blocks found")), cursor |-> None,
          end |-> None]
    ELSE [result |-> None,
          cursor |-> Some(fx.l2_block_infos[Min(DOMAIN fx.l2_block_infos)]),
          end |-> Some(Max(DOMAIN fx.l2_block_infos))]

\* the attributes taken for valid without comparing them
validate_mutant(fx, c, e, attributes) ==
    IF c.block_info.number \notin DOMAIN fx.l2_payloads
    THEN Some(Err("No expected payload found"))
    ELSE IF c.block_info.number = e
    THEN Some(Ok(Unit))
    ELSE None

\* the loop body after pipeline.next() returned Some(attributes): what run
\* returns, None when it loops again
validate(fx, c, e, attributes) ==
    IF c.block_info.number \notin DOMAIN fx.l2_payloads
    THEN Some(Err("No expected payload found"))
    ELSE IF attributes.attributes # fx.l2_payloads[c.block_info.number]
    THEN Some(Err("Attributes do not match expected"))
    ELSE IF c.block_info.number = e
    THEN Some(Ok(Unit))
    ELSE None

\* a failed step taken for fatal
goes_on_mutant(result) == result.tag # "StepFailed"

\* the match on the step result: every arm logs, and run goes on to
\* pipeline.next()
goes_on(result) ==
    CASE result.tag = "PreparedAttributes" -> TRUE
      [] result.tag = "AdvancedOrigin" -> TRUE
      [] result.tag = "OriginAdvanceErr" -> TRUE
      [] result.tag = "StepFailed" -> TRUE

RunStart ==
    /\ pc = "start"
    /\ LET r == run_start(fixture)
       IN  /\ cursor' = r.cursor
           /\ end' = r.end
           /\ run_result' = r.result
           /\ pc' = IF IsSome(r.result) THEN "done" ELSE "loop"
    /\ advance_cursor_flag' = FALSE
    /\ UNCHANGED <<pipelineVars, call, historyVars, fixture, validated,
                   stepped, iteration, codecVars>>

\* what l2_block_info_by_number answers for the block after the cursor
RunLookup ==
    l2_block_info_by_number(fixture, cursor[1].block_info.number + 1)

\* the cursor of this iteration's step
RunCursor ==
    IF advance_cursor_flag THEN RunLookup.val[1] ELSE cursor[1]

\* the lookup failed: continue, without stepping
RunRetry ==
    /\ iteration' = [NoIteration EXCEPT
                       !.turn = 1 - iteration.turn,
                       !.flag = advance_cursor_flag,
                       !.cursor_before = cursor,
                       !.validated_before = validated,
                       !.lookup = Some(RunLookup)]
    /\ UNCHANGED <<pipelineVars, call, historyVars, fixture, pc, cursor,
                   end, advance_cursor_flag, validated, stepped, run_result,
                   codecVars>>

\* step on the cursor, take the next attributes, validate them
RunIterate(na, adv) ==
    LET c == RunCursor
        s == step(prepared, na, adv)
        on == goes_on(s.result)
        n == IF on THEN next(s.prepared)
             ELSE [item |-> None, prepared |-> s.prepared]
        r == IF ~on THEN Some(Err("Error stepping derivation pipeline"))
             ELSE IF IsSome(n.item)
             THEN validate(fixture, c, end[1], n.item[1])
             ELSE None
        number == c.block_info.number
    IN  /\ cursor' = Some(c)
        /\ advance_cursor_flag' = FALSE
        /\ stepped' = TRUE
        /\ prepared' = n.prepared
        /\ validated' =
              IF /\ IsSome(n.item)
                 /\ number \in DOMAIN fixture.l2_payloads
                 /\ n.item[1].attributes = fixture.l2_payloads[number]
              THEN validated \cup {number}
              ELSE validated
        /\ run_result' = r
        /\ pc' = IF IsSome(r) THEN "done" ELSE "loop"
        /\ iteration' = [NoIteration EXCEPT
                           !.turn = 1 - iteration.turn,
                           !.flag = advance_cursor_flag,
                           !.cursor_before = cursor,
                           !.validated_before = validated,
                           !.lookup = IF advance_cursor_flag
                                      THEN Some(RunLookup) ELSE None,
                           !.step_cursor = Some(c),
                           !.step_result = Some(s.result),
                           !.next_called = on,
                           !.item = n.item]
        /\ UNCHANGED <<system_configs, call, historyVars, fixture, end,
                       codecVars>>

\* one iteration of the loop
RunLoop ==
    /\ pc = "loop"
    /\ IF advance_cursor_flag /\ ~RunLookup.ok
       THEN RunRetry
       ELSE \E na \in NextAttributesOutcomes(RunCursor) :
              \E adv \in AdvanceOriginAsked(na) :
                RunIterate(na, adv)

InitRunner ==
    /\ prepared = <<>>
    /\ system_configs = SomeSystemConfigs
    /\ call = NoCall
    /\ NoHistory
    /\ fixture \in Fixtures
    /\ pc = "start"
    /\ cursor = None
    /\ end = None
    /\ advance_cursor_flag = FALSE
    /\ validated = {}
    /\ stepped = FALSE
    /\ run_result = None
    /\ iteration = NoIteration
    /\ TxIdle
    /\ SigIdle

NextRunner == RunStart \/ RunLoop

SpecRunner == InitRunner /\ [][NextRunner]_vars

\* the iteration in which the pipeline prepares, for the cursor, the
\* attributes equal to the expected payload
RunLoopExpected ==
    /\ pc = "loop"
    /\ ~(advance_cursor_flag /\ ~RunLookup.ok)
    /\ RunCursor.block_info.number \in DOMAIN fixture.l2_payloads
    /\ RunIterate(
          Ok(OptimismAttributesWithParent(
               fixture.l2_payloads[RunCursor.block_info.number], RunCursor)),
          Ok(Unit))

\* run is polled until it returns, and the pipeline, stepped again and
\* again, eventually prepares the expected attributes for the cursor
SpecRunnerFair ==
    /\ InitRunner
    /\ [][NextRunner]_vars
    /\ WF_vars(RunStart)
    /\ WF_vars(RunLoop)
    /\ SF_vars(RunLoopExpected)

----------------------------------------------------------------------------
(* read_tx_data (batch/span_batch/utils.rs) *)

\* bytes are 0..255; the ones drawn for the inputs: the type bytes of
\* Legacy, Eip2930 and of no transaction type (5, 127), the RLP headers of
\* the empty string (128), of a string of 1 byte (129), of a long string
\* (184), of lists of 0, 1 and 2 bytes (192, 193, 194) and of a long list
\* (248)
TxBytes == {0, 1, 5, 127, 128, 129, 184, 192, 193, 194, 248}

RECURSIVE ByteStrings(_, _)
\* the byte strings over B of length at most n
ByteStrings(B, n) ==
    IF n = 0 THEN {<<>>}
    ELSE LET shorter == ByteStrings(B, n - 1)
         IN  shorter \cup {<<b>> \o t : b \in B, t \in {x \in shorter :
                                                          Len(x) = n - 1}}

\* n bytes b
Fill(n, b) == [i \in 1..n |-> b]

\* one byte more than asked skipped
advance_mutant(buf, cnt) == SubSeq(buf, cnt + 2, Len(buf))

\* Buf::advance
advance(buf, cnt) == SubSeq(buf, cnt + 1, Len(buf))

SpanBatchError(e) == [variant |-> "Decoding", error |-> e]
InvalidTransactionData == SpanBatchError("InvalidTransactionData")
InvalidTransactionType == SpanBatchError("InvalidTransactionType")

TxTypes == {"Legacy", "Eip2930", "Eip1559", "Eip4844", "Eip7702"}

\* TxType as u8
TxTypeByte(ty) ==
    CASE ty = "Legacy" -> 0
      [] ty = "Eip2930" -> 1
      [] ty = "Eip1559" -> 2
      [] ty = "Eip4844" -> 3
      [] ty = "Eip7702" -> 4

\* TxType::try_from(u8)
TxTypeTryFrom(b) ==
    IF \E ty \in TxTypes : TxTypeByte(ty) = b
    THEN Ok(CHOOSE ty \in TxTypes : TxTypeByte(ty) = b)
    ELSE Err("Eip2718Error::UnexpectedType")

RECURSIVE from_be_bytes(_)
\* the number a big-endian byte string stands for
from_be_bytes(bytes) ==
    IF bytes = <<>> THEN 0
    ELSE from_be_bytes(SubSeq(bytes, 1, Len(bytes) - 1)) * 256
            + bytes[Len(bytes)]

RECURSIVE to_be_bytes(_)
\* the shortest big-endian byte string that stands for n
to_be_bytes(n) ==
    IF n = 0 THEN <<>> ELSE to_be_bytes(n \div 256) \o <<n % 256>>

\* a decoded alloy_rlp::Header, or the error of Header::decode
Header(list, payload_length) ==
    [ok |-> TRUE, list |-> list, payload_length |-> payload_length,
     err |-> None]
HeaderErr(e) ==
    [ok |-> FALSE, list |-> FALSE, payload_length |-> 0, err |-> Some(e)]

\* the end of Header::decode: the payload has to be in the buffer
HeaderChecked(list, payload_length, buf) ==
    IF Len(buf) < payload_length
    THEN HeaderErr("InputTooShort")
    ELSE Header(list, payload_length)

\* Header::decode
HeaderDecode(buf) ==
    IF buf = <<>> THEN HeaderErr("InputTooShort")
    ELSE LET b == buf[1]
             rest == advance(buf, 1)
         IN  IF b <= 127 THEN HeaderChecked(FALSE, 1, buf)
             ELSE IF b <= 183
             THEN IF b - 128 = 1 /\ rest = <<>>
                  THEN HeaderErr("InputTooShort")
                  ELSE IF b - 128 = 1 /\ rest[1] < 128
                  THEN HeaderErr("NonCanonicalSingleByte")
                  ELSE HeaderChecked(FALSE, b - 128, rest)
             ELSE IF b <= 191 \/ b >= 248
             THEN LET list == b >= 248
                      len_of_len == b - (IF list THEN 247 ELSE 183)
                  IN  IF Len(rest) < len_of_len
                      THEN HeaderErr("InputTooShort")
                      ELSE IF rest[1] = 0
                      THEN HeaderErr("LeadingZero")
                      ELSE LET len == from_be_bytes(
                                         SubSeq(rest, 1, len_of_len))
                           IN  IF len < 56
                               THEN HeaderErr("NonCanonicalSize")
                               ELSE HeaderChecked(list, len,
                                        advance(rest, len_of_len))
             ELSE HeaderChecked(TRUE, b - 192, rest)

\* the header taken for one byte long whatever the payload
HeaderLength_mutant(payload_length) == 1

\* Header::length: the length of the encoded header
HeaderLength(payload_length) ==
    IF payload_length < 56 THEN 1
    ELSE 1 + Len(to_be_bytes(payload_length))

Panic(msg) == [variant |-> "panic", error |-> msg]

\* read_tx_data(r): what it returns, and the bytes behind r afterwards
read_tx_data(r) ==
    IF r = <<>>
    THEN [result |-> Err(InvalidTransactionData), r |-> r]
    ELSE
    LET first_byte == r[1]
        typed == first_byte <= 127
        tx_type == IF typed THEN first_byte ELSE 0
        r1 == IF typed THEN advance(r, 1) ELSE r
        rlp_header == HeaderDecode(r1)
        payload_length_with_header ==
            rlp_header.payload_length
                + HeaderLength(rlp_header.payload_length)
        tx_payload == SubSeq(r1, 1, payload_length_with_header)
        tx_data == (IF typed THEN <<tx_type>> ELSE <<>>) \o tx_payload
        r2 == advance(r1, payload_length_with_header)
        ty == TxTypeTryFrom(tx_type)
    IN  IF ~rlp_header.ok
        THEN [result |-> Err(InvalidTransactionData), r |-> r1]
        ELSE IF ~rlp_header.list
        THEN [result |-> Err(InvalidTransactionData), r |-> r1]
        ELSE IF payload_length_with_header > Len(r1)
        THEN [result |-> Err(Panic("range end index out of range")),
              r |-> r1]
        ELSE IF ~ty.ok
        THEN [result |-> Err(InvalidTransactionType), r |-> r2]
        ELSE [result |-> Ok([tx_data |-> tx_data, tx_type |-> ty.val[1]]),
              r |-> r2]

\* a transaction envelope: its type and the RLP payload of its list of
\* fields.  The payloads drawn: short ones of empty strings (128) and bytes
\* (1), and ones of 55, 56 and 256 bytes, on both sides of the lengths where
\* the list header grows
EnvelopePayloads ==
    ByteStrings({1, 128}, MaxLen)
        \cup {Fill(55, 128), Fill(56, 128), Fill(256, 128)}
Envelopes ==
    {[tx_type |-> ty, payload |-> p] : ty \in TxTypes, p \in EnvelopePayloads}

\* the header of an RLP list of n bytes
ListHeader(n) ==
    IF n < 56 THEN <<192 + n>>
    ELSE <<247 + Len(to_be_bytes(n))>> \o to_be_bytes(n)

\* the 2718 encoding of an envelope: the RLP list alone for Legacy, the type
\* byte and the RLP list for the others
encode_2718(E) ==
    (IF E.tx_type = "Legacy" THEN <<>> ELSE <<TxTypeByte(E.tx_type)>>)
        \o ListHeader(Len(E.payload)) \o E.payload

PipelineIdle ==
    /\ prepared = <<>>
    /\ system_configs = SomeSystemConfigs
    /\ call = NoCall
    /\ NoHistory
    /\ RunnerIdle

\* r points at any bytes, or at the encoding of an envelope
InitTx ==
    /\ PipelineIdle
    /\ SigIdle
    /\ \/ tx_input \in ByteStrings(TxBytes, MaxLen) /\ envelope = None
       \/ \E E \in Envelopes :
            tx_input = encode_2718(E) /\ envelope = Some(E)
    /\ reader = tx_input
    /\ read_result = None

ReadTxData ==
    /\ read_result = None
    /\ LET res == read_tx_data(reader)
       IN  /\ read_result' = Some(res.result)
           /\ reader' = res.r
    /\ UNCHANGED <<pipelineVars, call, historyVars, runnerVars, tx_input,
                   envelope, sigVars>>

NextTx == ReadTxData

SpecTx == InitTx /\ [][NextTx]_vars

----------------------------------------------------------------------------
(* convert_v_to_y_parity and is_protected_v (batch/span_batch/utils.rs) *)

\* a u64 is four 16-bit limbs, the most significant first
u64(n) == <<0, 0, 0, n>>
U64Max == <<65535, 65535, 65535, 65535>>

\* a < b
u64_lt(a, b) ==
    \E i \in 1..4 :
       /\ a[i] < b[i]
       /\ \A j \in 1..(i - 1) : a[j] = b[j]

\* a - b modulo 2^64
wrapping_sub(a, b) ==
    LET d4 == a[4] - b[4]
        c4 == IF d4 < 0 THEN 1 ELSE 0
        d3 == a[3] - b[3] - c4
        c3 == IF d3 < 0 THEN 1 ELSE 0
        d2 == a[2] - b[2] - c3
        c2 == IF d2 < 0 THEN 1 ELSE 0
        d1 == a[1] - b[1] - c2
        c1 == IF d1 < 0 THEN 1 ELSE 0
    IN  <<d1 + c1 * 65536, d2 + c2 * 65536, d3 + c3 * 65536,
          d4 + c4 * 65536>>

\* a build with overflow checks (debug) panics where one without (release)
\* wraps
Builds == {"debug", "release"}

\* the u64 subtraction a - b
sub(a, b, checks) ==
    IF u64_lt(a, b) /\ checks = "debug"
    THEN Err(Panic("attempt to subtract with overflow"))
    ELSE Ok(wrapping_sub(a, b))

\* a & 1
low_bit(a) == a[4] % 2

RECURSIVE bit_length(_)
\* the number of bits of a limb
bit_length(n) == IF n = 0 THEN 0 ELSE 1 + bit_length(n \div 2)

\* u64::leading_zeros
leading_zeros(a) ==
    IF a = u64(0) THEN 64
    ELSE LET i == CHOOSE k \in 1..4 :
                     a[k] # 0 /\ \A j \in 1..(k - 1) : a[j] = 0
         IN  16 * (i - 1) + (16 - bit_length(a[i]))

\* Eip4844 and Eip7702 converted as Eip1559 is
convert_v_to_y_parity_mutant(val, ty, checks) ==
    IF ty = "Legacy"
    THEN IF val # u64(27) /\ val # u64(28)
         THEN LET d == sub(val, u64(35), checks)
              IN  IF d.ok THEN Ok(low_bit(d.val[1]) = 1) ELSE d
         ELSE Ok(wrapping_sub(val, u64(27)) = u64(1))
    ELSE Ok(val = u64(1))

\* convert_v_to_y_parity(v, tx_type), in a build with or without overflow
\* checks
convert_v_to_y_parity(val, ty, checks) ==
    IF ty = "Legacy"
    THEN IF val # u64(27) /\ val # u64(28)
         THEN LET d == sub(val, u64(35), checks)
              IN  IF d.ok THEN Ok(low_bit(d.val[1]) = 1) ELSE d
         ELSE Ok(wrapping_sub(val, u64(27)) = u64(1))
    ELSE IF ty \in {"Eip2930", "Eip1559"}
    THEN Ok(val = u64(1))
    ELSE Err(InvalidTransactionType)

\* 0 and 1 taken for protected
is_protected_v_mutant(tx) ==
    IF tx.tx_type = "Legacy"
    THEN IF 64 - leading_zeros(tx.v) <= 8
         THEN tx.v # u64(27) /\ tx.v # u64(28)
         ELSE TRUE
    ELSE TRUE

\* is_protected_v(tx), tx.v being tx.signature().v().to_u64()
is_protected_v(tx) ==
    IF tx.tx_type = "Legacy"
    THEN IF 64 - leading_zeros(tx.v) <= 8
         THEN tx.v # u64(27) /\ tx.v # u64(28) /\ tx.v # u64(1)
                 /\ tx.v # u64(0)
         ELSE TRUE
    ELSE TRUE

\* the values of v drawn: 0..MaxV, and values on both sides of 2^8, 2^16,
\* 2^32, 2^63 and 2^64
SigValues ==
    {u64(n) : n \in 0..MaxV}
        \cup {u64(255), u64(256), u64(65535), <<0, 0, 1, 0>>,
              <<0, 0, 65535, 65535>>, <<0, 1, 0, 0>>,
              <<32767, 65535, 65535, 65535>>, <<32768, 0, 0, 0>>,
              wrapping_sub(U64Max, u64(1)), U64Max}

InitSig ==
    /\ PipelineIdle
    /\ TxIdle
    /\ sig_v \in SigValues
    /\ sig_tx_type \in TxTypes
    /\ build \in Builds
    /\ y_parity = None
    /\ protected = None

ConvertVToYParity ==
    /\ y_parity = None
    /\ y_parity' = Some(convert_v_to_y_parity(sig_v, sig_tx_type, build))
    /\ UNCHANGED <<pipelineVars, call, historyVars, runnerVars, txVars,
                   sig_v, sig_tx_type, build, protected>>

IsProtectedV ==
    /\ protected = None
    /\ protected' = Some(is_protected_v([tx_type |-> sig_tx_type,
                                         v |-> sig_v]))
    /\ UNCHANGED <<pipelineVars, call, historyVars, runnerVars, txVars,
                   sig_v, sig_tx_type, build, y_parity>>

NextSig == ConvertVToYParity \/ IsProtectedV

SpecSig == InitSig /\ [][NextSig]_vars

----------------------------------------------------------------------------
(* Claims about single calls, checked under Spec *)

IsStep == call.op = "step"
IsReset == call.op = "signal" /\ call.sig[1].tag = "Reset"

\* C1: a step either returns PreparedAttributes, having appended exactly one
\* record (the one next_attributes answered) at the back of the prepared
\* queue without calling advance_origin; or returns AdvancedOrigin, having
\* called advance_origin exactly once and left the queue unchanged; or
\* returns OriginAdvanceErr or StepFailed and leaves the queue unchanged.
\* No step both pushes and advances.
C1_StepOneEffect ==
    IsStep =>
      LET r == call.step_result[1]
          pushes == /\ r = PreparedAttributes
                    /\ Len(prepared) = Len(call.before) + 1
                    /\ SubSeq(prepared, 1, Len(call.before)) = call.before
                    /\ prepared[Len(prepared)] = call.na[1].val[1]
                    /\ call.advance_calls = 0
          advances == /\ r = AdvancedOrigin
                      /\ call.advance_calls = 1
                      /\ prepared = call.before
          fails == /\ r.tag \in {"OriginAdvanceErr", "StepFailed"}
                   /\ prepared = call.before
      IN  /\ pushes \/ advances \/ fails
          /\ ~(pushes /\ advances) /\ ~(pushes /\ fails)
          /\ ~(advances /\ fails)
          /\ ~(prepared # call.before /\ call.advance_calls > 0)

\* C1 witness: a step pushed onto a queue that held a different record
C1_Witness ==
    /\ IsStep
    /\ call.step_result[1] = PreparedAttributes
    /\ Len(call.before) = 1
    /\ prepared[2] # prepared[1]

\* C2: Ok(a) gives PreparedAttributes; Temporary(Eof), and only it, makes
\* step call advance_origin, giving AdvancedOrigin when that succeeds and
\* OriginAdvanceErr(e) with its error e when it fails; every other error
\* gives StepFailed(err) with that error, advance_origin not called.
C2_StepClassifies ==
    IsStep =>
      LET na == call.na[1]
          r == call.step_result[1]
      IN  /\ na.ok => r = PreparedAttributes /\ call.advance_calls = 0
          /\ (~na.ok /\ na.err[1] = temp("Eof", "")) =>
                /\ call.advance_calls = 1
                /\ IsSome(call.adv)
                /\ call.adv[1].ok => r = AdvancedOrigin
                /\ ~call.adv[1].ok => r = OriginAdvanceErr(call.adv[1].err[1])
          /\ (~na.ok /\ na.err[1] # temp("Eof", "")) =>
                /\ r = StepFailed(na.err[1])
                /\ call.advance_calls = 0

\* C2 witness: next_attributes answered Critical(Eof) and the step failed
\* with it
C2_Witness ==
    /\ IsStep
    /\ ~call.na[1].ok
    /\ call.na[1].err[1] = crit("Eof", "")
    /\ call.step_result[1] = StepFailed(crit("Eof", ""))

\* C4: peek returns the front record of the prepared queue (None when it is
\* empty) and leaves the queue unchanged; a next right after a peek returns
\* what the peek returned and removes exactly that record; next on an empty
\* queue returns None and leaves it empty.
C4_PeekAgreesWithNext ==
    /\ call.op = "peek" =>
          /\ prepared = call.before
          /\ call.item[1] =
                IF call.before = <<>> THEN None ELSE Some(call.before[1])
    /\ call.op = "next" =>
          /\ IF call.before = <<>>
             THEN call.item[1] = None /\ prepared = <<>>
             ELSE /\ call.item[1] = Some(call.before[1])
                  /\ prepared = Tail(call.before)
          /\ IsSome(call.peeked) => call.item[1] = call.peeked[1]

\* C4 witness: a next right after a peek, on a queue of two different
\* records
C4_Witness ==
    /\ call.op = "next"
    /\ IsSome(call.peeked)
    /\ Len(call.before) = 2
    /\ call.before[1] # call.before[2]

\* C5: after a Reset signal that returned Ok the prepared queue is empty.
C5_ResetEmptiesPrepared ==
    (IsReset /\ call.signal_result[1].ok) => prepared = <<>>

\* C6: a Reset whose l2_safe_head number the provider has no system config
\* for returns Err(Temporary(Provider(message))), message being the string
\* form of the provider's error, without invoking reset and leaving the
\* queue unchanged; when the provider holds a system config at that number
\* and reset succeeds, the signal returns Ok having invoked reset exactly
\* once, with the signal's l1_origin and that system config.
C6_ResetProvider ==
    IsReset =>
      LET sig == call.sig[1]
          n == sig.l2_safe_head.block_info.number
      IN  /\ call.provider_calls = <<n>>
          /\ n \notin DOMAIN system_configs =>
                /\ call.signal_result[1] =
                      Err([kind |-> "Temporary", err |-> "Provider",
                           msg |-> "system config not found: "
                                       \o ToString(n)])
                /\ call.reset_calls = <<>>
                /\ prepared = call.before
          /\ n \in DOMAIN system_configs =>
                /\ IsSome(call.rst)
                /\ call.rst[1].ok =>
                      /\ call.signal_result[1] = Ok(Unit)
                      /\ call.reset_calls =
                            << [l1_origin |-> sig.l1_origin,
                                system_config |-> system_configs[n]] >>

\* C6 witness: a Reset the provider failed, on a queue holding a record
C6_Witness ==
    /\ IsReset
    /\ call.reset_calls = <<>>
    /\ ~call.signal_result[1].ok
    /\ prepared # <<>>

\* C6 witness of the other case: a Reset whose reset was invoked and
\* succeeded
C6_WitnessOk ==
    /\ IsReset
    /\ IsSome(call.rst)
    /\ call.rst[1].ok

\* C7: in a Reset, a reset that answers Temporary(Eof) makes signal return
\* Ok; a reset that answers any other error makes signal return that error.
C7_ResetEof ==
    (IsReset /\ IsSome(call.rst) /\ ~call.rst[1].ok) =>
      LET e == call.rst[1].err[1]
      IN  call.signal_result[1] =
            IF e = temp("Eof", "") THEN Ok(Unit) ELSE Err(e)

\* C7 witness: reset answered Critical(Eof) and signal returned it
C7_Witness ==
    /\ IsReset
    /\ IsSome(call.rst)
    /\ call.rst[1] = Err(crit("Eof", ""))
    /\ call.signal_result[1] = Err(crit("Eof", ""))

\* C7 witness of the other case: reset answered Temporary(Eof) and signal
\* returned Ok
C7_WitnessEof ==
    /\ IsReset
    /\ IsSome(call.rst)
    /\ call.rst[1] = Err(temp("Eof", ""))
    /\ call.signal_result[1] = Ok(Unit)

----------------------------------------------------------------------------
(* Claims about sequences of calls, checked under SpecFifo *)

Number(a) == a.parent.block_info.number

StrictlyIncreasing(q) ==
    \A i, j \in 1..Len(q) : i < j => Number(q[i]) < Number(q[j])

\* C3: the records next() returned are, in the same order, a prefix of the
\* records step pushed: none is returned twice or out of order.
C3_Fifo ==
    /\ Len(popped) <= Len(pushed)
    /\ popped = SubSeq(pushed, 1, Len(popped))

\* C3 witness: two different records were pushed and both popped
C3_Witness ==
    /\ Len(popped) = 2
    /\ popped[1] # popped[2]

\* C8 as stated: whatever the calls, the records next() returned have
\* strictly increasing parent.block_info.number.
C8_StrictlyIncreasing == StrictlyIncreasing(popped)

\* C8 amended: the records next() returned have strictly increasing
\* parent.block_info.number whenever the records step pushed had.
C8_IncreasingAsPushed ==
    StrictlyIncreasing(pushed) => StrictlyIncreasing(popped)

\* C8 witness: two records pushed with increasing numbers, both popped
C8_Witness ==
    /\ Len(popped) = 2
    /\ StrictlyIncreasing(pushed)
    /\ Number(popped[1]) < Number(popped[2])

\* C9: after a Reset that returned Ok and steps at its l2_safe_head up to
\* the first PreparedAttributes, the record next() then returns has the
\* l2_safe_head of the signal as its parent.
C9_ParentIsSafeHead ==
    resetTrack.phase = "popped" =>
      /\ IsSome(resetTrack.item)
      /\ resetTrack.item[1].parent = resetTrack.l2_safe_head[1]

----------------------------------------------------------------------------
(* Claims about the runner, checked under SpecRunner *)

ReturnedOk == run_result = Some(Ok(Unit))

\* C10: when run returns Ok, for every number from the least to the
\* greatest key of l2_block_infos a record was popped while the cursor was
\* at that number and was equal to l2_payloads at that number; with no
\* l2_block_infos run returns an error without stepping.
C10_OkOnlyOnFullValidation ==
    LET keys == DOMAIN fixture.l2_block_infos
    IN  /\ ReturnedOk =>
              /\ keys # {}
              /\ \A n \in Min(keys)..Max(keys) : n \in validated
        /\ (keys = {} /\ pc # "start") =>
              /\ IsSome(run_result)
              /\ ~run_result[1].ok
              /\ ~stepped

\* C10 witness: run returned Ok
C10_Witness == ReturnedOk /\ stepped

\* C10 witness of the other case: run returned on an empty l2_block_infos
C10_WitnessEmpty == DOMAIN fixture.l2_block_infos = {} /\ pc = "done"

\* the last iteration popped a record, found it equal to l2_payloads at the
\* cursor, and the cursor was not at the end number: run is back at the top
\* of the loop
ValidatedNotAtEnd ==
    /\ pc = "loop"
    /\ IsSome(iteration.item)

\* C11: after a record popped at cursor c was validated and c is not at the
\* end number, advance_cursor_flag is set, so that the next step is called
\* with the cursor of c.number + 1; step is never called with a cursor whose
\* record was validated before.
C11_AdvanceAfterValidation ==
    /\ ValidatedNotAtEnd => advance_cursor_flag
    /\ IsSome(iteration.step_cursor) =>
          iteration.step_cursor[1].block_info.number
             \notin iteration.validated_before

\* l2_block_infos and l2_payloads contain every number from start to end
FullFixture ==
    LET keys == DOMAIN fixture.l2_block_infos
    IN  /\ keys # {}
        /\ \A n \in Min(keys)..Max(keys) :
              n \in keys /\ n \in DOMAIN fixture.l2_payloads

\* C12: on a fixture that contains every number from start to end, with a
\* pipeline that eventually prepares the expected attributes for the
\* cursor, run eventually returns: it does not loop forever.
C12_RunReturns == FullFixture => <>(pc = "done")

\* run returned an error from inside the loop
ReturnedErrInLoop ==
    /\ stepped
    /\ IsSome(run_result)
    /\ ~run_result[1].ok

\* C18: whatever the step result, run goes on to pipeline.next(), and loops
\* again when the queue had nothing; once in the loop run returns an error
\* only in the iteration where a record was popped and l2_payloads has no
\* entry at the cursor or the record's attributes differ from that entry.
C18_NoStepResultAborts ==
    /\ IsSome(iteration.step_result) => iteration.next_called
    /\ (iteration.next_called /\ ~IsSome(iteration.item)) =>
          pc = "loop" /\ run_result = None
    /\ ReturnedErrInLoop =>
          /\ pc = "done"
          /\ IsSome(iteration.item)
          /\ LET number == cursor[1].block_info.number
             IN  \/ number \notin DOMAIN fixture.l2_payloads
                 \/ iteration.item[1].attributes
                       # fixture.l2_payloads[number]

\* C18 witness: a step failed with an error other than NotEnoughData, and
\* run is back at the top of the loop
C18_Witness ==
    /\ pc = "loop"
    /\ IsSome(iteration.step_result)
    /\ iteration.step_result[1].tag = "StepFailed"
    /\ iteration.next_called

\* C18 witness of the other case: run returned an error on a mismatch
C18_WitnessMismatch ==
    /\ ReturnedErrInLoop
    /\ cursor[1].block_info.number \in DOMAIN fixture.l2_payloads

----------------------------------------------------------------------------
(* Claims about signal(FlushChannel), checked under Spec *)

IsFlushChannel == call.op = "signal" /\ call.sig[1].tag = "FlushChannel"

\* C20: signal(FlushChannel) calls flush_channel exactly once, queries the
\* provider never, calls reset never, leaves the prepared queue as it was,
\* returns Ok(()) when flush_channel answered Ok and otherwise the error
\* flush_channel answered, Temporary(Eof) included.
C20_FlushChannelDelegates ==
    IsFlushChannel =>
      /\ call.flush_calls = 1
      /\ call.provider_calls = <<>>
      /\ call.reset_calls = <<>>
      /\ prepared = call.before
      /\ call.signal_result[1] = call.fl[1]

\* C20 witness: flush_channel answered Temporary(Eof), with a record in the
\* prepared queue
C20_Witness ==
    /\ IsFlushChannel
    /\ call.fl[1] = Err(TemporaryEof)
    /\ call.signal_result[1] = Err(TemporaryEof)
    /\ prepared # <<>>

\* C20 witness of the other case: flush_channel answered Ok
C20_WitnessOk ==
    /\ IsFlushChannel
    /\ call.signal_result[1] = Ok(Unit)

----------------------------------------------------------------------------
(* Claims about read_tx_data, checked under SpecTx *)

ReadFailed == IsSome(read_result) /\ ~read_result[1].ok

\* C13: when read_tx_data returns an error, r points at the same bytes as
\* before the call, also when the first byte is a type byte (<= 0x7F).
C13_FailedReadLeavesCursor == ReadFailed => reader = tx_input

\* C14: for the 2718 encoding of an envelope of any of the five types,
\* read_tx_data returns Ok of these very bytes and of the envelope's type.
C14_RoundTrip ==
    (IsSome(envelope) /\ IsSome(read_result)) =>
       read_result[1] = Ok([tx_data |-> encode_2718(envelope[1]),
                            tx_type |-> envelope[1].tx_type])

\* C14 witness: the encoding of an Eip7702 envelope with a payload of more
\* than 55 bytes was read
C14_Witness ==
    /\ IsSome(envelope)
    /\ envelope[1].tx_type = "Eip7702"
    /\ Len(envelope[1].payload) > 55
    /\ IsSome(read_result)
    /\ read_result[1].ok
    /\ reader = <<>>

\* C14 witness of the other shape: a Legacy envelope
C14_WitnessLegacy ==
    /\ IsSome(envelope)
    /\ envelope[1].tx_type = "Legacy"
    /\ IsSome(read_result)
    /\ read_result[1].ok

----------------------------------------------------------------------------
(* Claims about convert_v_to_y_parity and is_protected_v, checked under
   SpecSig *)

Converted == IsSome(y_parity)

\* C15: for Legacy and every v, convert_v_to_y_parity returns Ok: of v = 28
\* when v is 27 or 28, and otherwise of the low bit of v - 35 being 1, which
\* is v being even; it never panics, whatever the build.
C15_LegacyAlwaysOk ==
    (Converted /\ sig_tx_type = "Legacy") =>
       y_parity[1] = Ok(IF sig_v \in {u64(27), u64(28)}
                        THEN sig_v = u64(28)
                        ELSE low_bit(sig_v) = 0)

\* C16: for Eip2930 and Eip1559 convert_v_to_y_parity returns Ok(v = 1),
\* for Eip4844 and Eip7702 it returns Err(Decoding(InvalidTransactionType)),
\* whatever v is.
C16_TypedParity ==
    Converted =>
       /\ sig_tx_type \in {"Eip2930", "Eip1559"} =>
             y_parity[1] = Ok(sig_v = u64(1))
       /\ sig_tx_type \in {"Eip4844", "Eip7702"} =>
             y_parity[1] = Err(InvalidTransactionType)

\* C16 witness: an Eip4844 transaction with v = 1 was refused
C16_Witness ==
    /\ Converted
    /\ sig_tx_type = "Eip4844"
    /\ sig_v = u64(1)
    /\ ~y_parity[1].ok

\* C16 witness of the other case: Ok(true) for Eip1559
C16_WitnessOk ==
    /\ Converted
    /\ sig_tx_type = "Eip1559"
    /\ y_parity[1] = Ok(TRUE)

\* v <= 255
FitsInAByte == ~u64_lt(u64(255), sig_v)

\* C17: is_protected_v is true for every envelope that is not Legacy; for
\* a Legacy one it is false exactly when v is 0, 1, 27 or 28; and
\* 64 - leading_zeros(v) <= 8 holds exactly when v <= 255.
C17_ProtectedV ==
    /\ IsSome(protected) =>
          protected[1] =
             ~(/\ sig_tx_type = "Legacy"
               /\ sig_v \in {u64(0), u64(1), u64(27), u64(28)})
    /\ (64 - leading_zeros(sig_v) <= 8) <=> FitsInAByte

\* C17 witness: a Legacy envelope with v = 1 is not protected
C17_Witness ==
    /\ IsSome(protected)
    /\ sig_tx_type = "Legacy"
    /\ sig_v = u64(1)
    /\ protected[1] = FALSE

\* C17 witness of the other branch: a Legacy envelope with v = 256
C17_WitnessWide ==
    /\ IsSome(protected)
    /\ sig_tx_type = "Legacy"
    /\ sig_v = u64(256)
    /\ protected[1] = TRUE

----------------------------------------------------------------------------
(* Claims about a successful read_tx_data, checked under SpecTx *)

ReadOk == IsSome(read_result) /\ read_result[1].ok

\* whether the input starts with a type byte, and the input after it
StartsTyped == tx_input # <<>> /\ tx_input[1] <= 127
AfterType == IF StartsTyped THEN Tail(tx_input) ELSE tx_input

\* C21: when read_tx_data returns Ok((bytes, ty)), bytes is the prefix of
\* the input that was consumed, of length (1 for a type byte, else 0) +
\* the RLP header's length + its payload length, and what follows that
\* prefix is still behind r.
C21_ConsumesOneTransaction ==
    ReadOk =>
       LET tx_data == read_result[1].val[1].tx_data
           payload_length == HeaderDecode(AfterType).payload_length
       IN  /\ tx_input = tx_data \o reader
           /\ Len(tx_data) =
                 (IF StartsTyped THEN 1 ELSE 0)
                    + HeaderLength(payload_length) + payload_length

\* C21 witness: a typed transaction was read and bytes are left behind r
C21_Witness ==
    /\ ReadOk
    /\ StartsTyped
    /\ reader # <<>>

\* C21 witness of the long header: a payload of 256 bytes was read
C21_WitnessLong ==
    /\ ReadOk
    /\ Len(read_result[1].val[1].tx_data) > 256

\* the input has one of the two shapes: a type byte in 1..127 of a known
\* transaction type followed by an RLP list, or an RLP list header byte
\* (192..255) first
OnWireShape ==
    /\ tx_input # <<>>
    /\ \/ /\ tx_input[1] \in 1..127
          /\ TxTypeTryFrom(tx_input[1]).ok
          /\ HeaderDecode(Tail(tx_input)).ok
          /\ HeaderDecode(Tail(tx_input)).list
       \/ tx_input[1] \in 192..255

\* C22: read_tx_data returns Ok only on an input of one of the two shapes;
\* on every other input (empty, first byte 0, first byte in 128..191, a type
\* byte followed by something that is no complete RLP list, an unknown type
\* byte) it returns InvalidTransactionData or InvalidTransactionType.
C22_OnlyTwoShapes ==
    IsSome(read_result) =>
       /\ read_result[1].ok => OnWireShape
       /\ ~read_result[1].ok =>
             read_result[1].err[1]
                \in {InvalidTransactionData, InvalidTransactionType}

====
